---- MODULE Spec2Model ----
(***************************************************************************)
(* Model of the player / shop actors of actor-game-model.                  *)
(*                                                                         *)
(* The model has one Shop actor, the shop1 of main, and NumPlayers        *)
(* Player actors buying from it.                                           *)
(*                                                                         *)
(* Every actor owns its state and a bounded mpsc mailbox; a handle sends a *)
(* message that embeds a oneshot reply channel.  Player::buy is a handler  *)
(* that calls check_price and buy_item on the shop handle, each of which   *)
(* awaits its send and then its reply; it is modelled as five steps, one   *)
(* per piece of straight-line code between two awaits.  Shop handlers have *)
(* no await and are single steps.                                          *)
(*                                                                         *)
(* Spec is the program with drivers that keep their handles and wait for   *)
(* every reply.  FairSpec adds the fair scheduling of the loop tasks,      *)
(* AbandonSpec the callers that drop a pending call, LifetimeSpec the drop *)
(* of the drivers' ShopHandle and the end of Shop::run, ClosingSpec a shop *)
(* whose task is dropped while handles to it are alive.                    *)
(***************************************************************************)
EXTENDS Integers, Sequences, FiniteSets, TLC

\* ------------------------------------------------------------------ bounds

\* Number of Player actors spawned.
NumPlayers == 2

\* Number of calls the external drivers make on the handles.
MaxCalls == 2

\* Width of the unsigned integer inside Gold.  The source uses u64; the
\* arithmetic below is the same modular arithmetic at a width TLC can
\* enumerate, and the amounts received are chosen relative to GoldMax so
\* that an addition can cross the top of the range exactly as it can for u64.
GoldBits == 11

\* ------------------------------------------------------- program constants

\* mpsc::channel(100) of Shop::new and Player::new.
ChannelCapacity == 100

Players == 0 .. (NumPlayers - 1)

RECURSIVE Pow2(_)
Pow2(n) == IF n = 0 THEN 1 ELSE 2 * Pow2(n - 1)

GoldModulus == Pow2(GoldBits)
GoldMax == GoldModulus - 1

\* ------------------------------------------------------------------- items

\* Item::new for the four items of main: ids come from ItemId::new's counter.
Item(id, name, price) == [id |-> id, name |-> name, price |-> price]

Catalog ==
    << Item(0, "Sword", 100), Item(1, "Shield", 150),
       Item(2, "Axe", 200), Item(3, "Bow", 250) >>

ItemOf(id) == Catalog[id + 1]

ItemIds == {Catalog[k].id : k \in 1 .. Len(Catalog)}

\* main: shop1 is given [sword, shield]; the axe and the bow go to another
\* shop, and this one never holds them.
InitialStock == {0, 1}

\* HashMap<ItemId, Item> built by `.map(|item| (item.id, item)).collect()`.
Collect(ids) == [id \in ids |-> ItemOf(id)]

\* HashMap::insert / remove / get / values
Insert(map, key, value) ==
    [k \in (DOMAIN map) \cup {key} |-> IF k = key THEN value ELSE map[k]]

Remove(map, key) == [k \in (DOMAIN map) \ {key} |-> map[k]]

Contains(map, key) == key \in DOMAIN map

Values(map) == {map[k] : k \in DOMAIN map}

\* -------------------------------------------------------------------- Gold

\* Gold(u64) `+`: the sum, or on overflow either a panic (overflow checks on)
\* or the wrapped value (overflow checks off).
GoldAdd(a, b) ==
    IF a + b <= GoldMax
    THEN {[panic |-> FALSE, value |-> a + b]}
    ELSE {[panic |-> TRUE, value |-> a],
          [panic |-> FALSE, value |-> (a + b) % GoldModulus]}

\* Gold(u64) `-`: the difference, or on underflow a panic or the wrapped value.
GoldSub(a, b) ==
    IF b <= a
    THEN {[panic |-> FALSE, value |-> a - b]}
    ELSE {[panic |-> TRUE, value |-> a],
          [panic |-> FALSE, value |-> (a - b) + GoldModulus]}

\* ------------------------------------------------------- inputs of drivers

\* Player::new(gold, []): main uses 1000; 50 and 100 are the balances of the
\* insufficient-funds and exact-funds cases.  All players run the same code,
\* so Init takes each combination of balances once, in ascending order.
InitialGold == {50, 100, 1000}

\* Item ids the drivers ask for: the Sword, which the shop stocks, and the
\* Axe, which it never held.
AskedItems == {0, 2}

\* Amounts sent with ReceiveGold.
ReceivedAmounts == {50, GoldMax}

\* Payments offered directly on a ShopHandle.
Payments == {50, 100}

\* ----------------------------------------------------------------- results

Pending == [tag |-> "Pending"]

\* The caller dropped the future of its call while it awaited the reply: the
\* oneshot::Receiver is gone.
Abandoned == [tag |-> "Abandoned"]

Ok(v) == [tag |-> "Ok", value |-> v]

Err(e) == [tag |-> "Err", error |-> e]

\* shop::Error
ItemNotAvailable == [kind |-> "ItemNotAvailable"]

ShopNotEnoughGold(payment, price) ==
    [kind |-> "NotEnoughGold", payment |-> payment, price |-> price]

ShopClosed == [kind |-> "ShopClosed"]

NoResponse == [kind |-> "NoResponse"]

\* FromSendError with the bug of the two channel failures sharing one variant.
FromSendError_Same == NoResponse

\* `?` on `self.sender.send(message).await` in the methods of ShopHandle:
\* ShopClosed(#[from] mpsc::error::SendError<ShopMessage>)
FromSendError == ShopClosed

\* `?` on `receiver.await` in the methods of ShopHandle:
\* NoResponse(#[from] oneshot::error::RecvError)
FromRecvError == NoResponse

\* player::PlayerError
ItemNotAvailableToBuy == [kind |-> "ItemNotAvailableToBuy"]

NotEnoughGold(available, price) ==
    [kind |-> "NotEnoughGold", available |-> available, price |-> price]

SendError == [kind |-> "SendError"]

ReceiveError == [kind |-> "ReceiveError"]

\* ---------------------------------------------------------------- messages

\* The oneshot::Sender embedded in a message: it answers either a call made
\* by a driver or the nested call of the player whose handler is suspended.
ToCall(c) == [to |-> "call", id |-> c]

ToPlayer(p) == [to |-> "player", id |-> p]

\* enum ShopMessage
ListItemsMsg(response) == [kind |-> "ListItems", response |-> response]

CheckPriceMsg(item_id, response) ==
    [kind |-> "CheckPrice", item_id |-> item_id, response |-> response]

ShopBuyItemMsg(item_id, payment, response) ==
    [kind |-> "BuyItem", item_id |-> item_id, payment |-> payment,
     response |-> response]

\* enum PlayerMessage
BuyItemMsg(shop, item_id, response) ==
    [kind |-> "BuyItem", shop |-> shop, item_id |-> item_id,
     response |-> response]

ReceiveGoldMsg(amount) == [kind |-> "ReceiveGold", amount |-> amount]

InfoMsg(response) == [kind |-> "Info", response |-> response]

NoMessage == [kind |-> "None"]

\* The ShopHandle of the shop: ShopId::new() numbers it 0.
ShopHandle == [id |-> 0]

\* ------------------------------------------------------------------- state

VARIABLES
    shopInventory,  \* Shop.inventory
    shopMailbox,    \* the queue behind Shop.receiver
    wallet,         \* Player.wallet
    inventory,      \* Player.inventory
    mailbox,        \* the queue behind Player.receiver
    pc,             \* where each player's task is: idle in recv; suspended
                    \* in buy on the send or on the reply of check_price
                    \* or of buy_item; or dead (panicked)
    current,        \* the BuyItem message whose handler is suspended
    available,      \* local `available` of the suspended Player::buy
    price,          \* local `price` of the suspended Player::buy
    reply,          \* the oneshot the suspended Player::buy awaits
    calls,          \* the calls made by the drivers, with what each returned
    initial,        \* the `wallet` argument each player was constructed with
    shopHandle,     \* the drivers still hold a ShopHandle (a Sender clone)
    shopRunning     \* Shop::run has not returned

vars ==
    << shopInventory, shopMailbox, wallet, inventory, mailbox, pc, current,
       available, price, reply, calls, initial, shopHandle, shopRunning >>

\* What only the construction, the drop of the drivers' ShopHandle and the
\* end of Shop::run write.
envVars == << initial, shopHandle, shopRunning >>

shopVars == << shopInventory, shopMailbox >>

localVars == << current, available, price >>

\* A call made on a handle by a driver: its arguments, what it has returned,
\* and the earlier calls that had not returned when it was made (the calls it
\* is concurrent with).
Call(op, player, item_id, gold, response) ==
    [op |-> op, player |-> player, item_id |-> item_id,
     gold |-> gold, response |-> response,
     overlaps |-> {c \in DOMAIN calls : calls[c].response = Pending}]

\* The fields of a call that its operation does not use.
NoId == 0 - 1

Init ==
    /\ shopInventory = Collect(InitialStock)
    /\ shopMailbox = << >>
    /\ wallet \in [Players -> InitialGold]
    /\ \A p, q \in Players : p < q => wallet[p] <= wallet[q]
    /\ inventory = [p \in Players |-> Collect({})]
    /\ mailbox = [p \in Players |-> << >>]
    /\ pc = [p \in Players |-> "idle"]
    /\ current = [p \in Players |-> NoMessage]
    /\ available = [p \in Players |-> 0]
    /\ price = [p \in Players |-> 0]
    /\ reply = [p \in Players |-> Pending]
    /\ calls = << >>
    /\ initial = wallet
    /\ shopHandle = TRUE
    /\ shopRunning = TRUE

\* ------------------------------------------------------------ reply channels

\* Answer with the bug of a value reaching a caller that no longer waits.
Answer_Unchecked(cs, c, value) == [cs EXCEPT ![c].response = value]

\* `let _ = response.send(value)` to the caller of a call: the value reaches
\* a caller that awaits it; when the receiver was dropped the send returns
\* Err(value), which `let _ =` discards.
Answer(cs, c, value) ==
    IF cs[c].response = Abandoned THEN cs ELSE [cs EXCEPT ![c].response = value]

\* oneshot::Sender::send(value): the value reaches the receiver of the call
\* or of the suspended player.  (`let _ =` drops the send's own result.)
Deliver(response, value) ==
    IF response.to = "call"
    THEN /\ calls' = Answer(calls, response.id, value)
         /\ UNCHANGED reply
    ELSE /\ reply' = [reply EXCEPT ![response.id] = value]
         /\ UNCHANGED calls

\* The reply channels held by the messages of a queue.
Responses(queue) ==
    {queue[k].response : k \in {j \in 1 .. Len(queue) : queue[j].kind # "ReceiveGold"}}

\* mpsc::Sender::send on a queue with room.
HasRoom(queue) == Len(queue) < ChannelCapacity

\* Enqueue with the bug of a mailbox that hands out the latest message first.
Enqueue_Front(queue, message) == << message >> \o queue

\* `self.sender.send(message).await`: the message goes to the back of the
\* queue, which `receiver.recv()` takes from the front.
Enqueue(queue, message) == Append(queue, message)

\* ------------------------------------------------------------ driver calls

NextCall == Len(calls) + 1

\* PlayerHandle::buy
CallBuy(p, item_id) ==
    /\ Len(calls) < MaxCalls
    /\ shopHandle
    /\ IF pc[p] = "dead"
       THEN /\ calls' = Append(calls, Call("buy", p, item_id, NoId, Err(SendError)))
            /\ UNCHANGED mailbox
       ELSE /\ HasRoom(mailbox[p])
            /\ mailbox' = [mailbox EXCEPT
                   ![p] = Enqueue(@, BuyItemMsg(ShopHandle, item_id, ToCall(NextCall)))]
            /\ calls' = Append(calls, Call("buy", p, item_id, NoId, Pending))
    /\ UNCHANGED << shopVars, wallet, inventory, pc, localVars, reply >>
    /\ UNCHANGED envVars

\* PlayerHandle::receive_gold: returns Ok(()) as soon as the message is sent.
CallReceiveGold(p, amount) ==
    /\ Len(calls) < MaxCalls
    /\ IF pc[p] = "dead"
       THEN /\ calls' = Append(calls,
                   Call("receive_gold", p, NoId, amount, Err(SendError)))
            /\ UNCHANGED mailbox
       ELSE /\ HasRoom(mailbox[p])
            /\ mailbox' = [mailbox EXCEPT ![p] = Enqueue(@, ReceiveGoldMsg(amount))]
            /\ calls' = Append(calls,
                   Call("receive_gold", p, NoId, amount, Ok("sent")))
    /\ UNCHANGED << shopVars, wallet, inventory, pc, localVars, reply >>
    /\ UNCHANGED envVars

\* PlayerHandle::info
CallInfo(p) ==
    /\ Len(calls) < MaxCalls
    /\ IF pc[p] = "dead"
       THEN /\ calls' = Append(calls, Call("info", p, NoId, NoId, Err(SendError)))
            /\ UNCHANGED mailbox
       ELSE /\ HasRoom(mailbox[p])
            /\ mailbox' = [mailbox EXCEPT ![p] = Enqueue(@, InfoMsg(ToCall(NextCall)))]
            /\ calls' = Append(calls, Call("info", p, NoId, NoId, Pending))
    /\ UNCHANGED << shopVars, wallet, inventory, pc, localVars, reply >>
    /\ UNCHANGED envVars

\* ShopHandle::list_items
CallListItems ==
    /\ Len(calls) < MaxCalls
    /\ shopHandle
    /\ IF shopRunning
       THEN /\ HasRoom(shopMailbox)
            /\ shopMailbox' = Enqueue(shopMailbox, ListItemsMsg(ToCall(NextCall)))
            /\ calls' = Append(calls, Call("list_items", NoId, NoId, NoId, Pending))
       ELSE /\ calls' = Append(calls,
                   Call("list_items", NoId, NoId, NoId, Err(FromSendError)))
            /\ UNCHANGED shopMailbox
    /\ UNCHANGED << shopInventory, wallet, inventory, mailbox, pc, localVars, reply >>
    /\ UNCHANGED envVars

\* ShopHandle::check_price
CallCheckPrice(item_id) ==
    /\ Len(calls) < MaxCalls
    /\ shopHandle
    /\ IF shopRunning
       THEN /\ HasRoom(shopMailbox)
            /\ shopMailbox' = Enqueue(shopMailbox,
                                      CheckPriceMsg(item_id, ToCall(NextCall)))
            /\ calls' = Append(calls, Call("check_price", NoId, item_id, NoId, Pending))
       ELSE /\ calls' = Append(calls,
                   Call("check_price", NoId, item_id, NoId, Err(FromSendError)))
            /\ UNCHANGED shopMailbox
    /\ UNCHANGED << shopInventory, wallet, inventory, mailbox, pc, localVars, reply >>
    /\ UNCHANGED envVars

\* ShopHandle::buy_item
CallBuyItem(item_id, payment) ==
    /\ Len(calls) < MaxCalls
    /\ shopHandle
    /\ IF shopRunning
       THEN /\ HasRoom(shopMailbox)
            /\ shopMailbox' = Enqueue(shopMailbox,
                                      ShopBuyItemMsg(item_id, payment, ToCall(NextCall)))
            /\ calls' = Append(calls, Call("buy_item", NoId, item_id, payment, Pending))
       ELSE /\ calls' = Append(calls,
                   Call("buy_item", NoId, item_id, payment, Err(FromSendError)))
            /\ UNCHANGED shopMailbox
    /\ UNCHANGED << shopInventory, wallet, inventory, mailbox, pc, localVars, reply >>
    /\ UNCHANGED envVars

\* -------------------------------------------------------------------- Shop

\* Shop::run has received a message of this kind.
ShopReceives(kind) ==
    /\ shopRunning
    /\ shopMailbox # << >>
    /\ Head(shopMailbox).kind = kind

\* Every handler of Shop is straight-line code on the inventory: it is an
\* operator from the inventory and the message's fields to the inventory it
\* leaves and the value it sends on the reply channel.
Handled(inv, value) == [inventory |-> inv, reply |-> value]

\* Shop::list_items (a Vec in HashMap order: the order carries no meaning)
list_items(inv) == Handled(inv, Ok(Values(inv)))

\* check_price with the bug of quoting a price of 0 for a good it lacks.
check_price_Free(inv, item_id) ==
    IF Contains(inv, item_id)
    THEN [inventory |-> inv, reply |-> Ok(inv[item_id].price)]
    ELSE [inventory |-> inv, reply |-> Ok(0)]

\* check_price with the bug of taking the good out while quoting it.
check_price_Taking(inv, item_id) ==
    IF Contains(inv, item_id)
    THEN [inventory |-> Remove(inv, item_id), reply |-> Ok(inv[item_id].price)]
    ELSE [inventory |-> inv, reply |-> Err(ItemNotAvailable)]

\* Shop::check_price
check_price(inv, item_id) ==
    IF Contains(inv, item_id)
    THEN Handled(inv, Ok(inv[item_id].price))
    ELSE Handled(inv, Err(ItemNotAvailable))

\* TakeItem with the bug of looking the good up without removing it.
TakeItem_Kept(inv, item_id) == inv

\* `self.inventory.remove(&item_id)` of Shop::buy_item: the inventory it leaves.
TakeItem(inv, item_id) == Remove(inv, item_id)

\* Underpaid with `<=` for `<`: a payment of exactly the price is refused.
Underpaid_OrEqual(payment, item) == payment <= item.price

\* `payment < item.price` of Shop::buy_item.
Underpaid(payment, item) == payment < item.price

\* buy_item with the bug of taking the good out and answering that it is
\* not available.
buy_item_Withheld(inv, item_id, payment) ==
    IF ~Contains(inv, item_id)
    THEN Handled(inv, Err(ItemNotAvailable))
    ELSE Handled(TakeItem(inv, item_id), Err(ItemNotAvailable))

\* buy_item with the bug of not putting the good back after an underpayment.
buy_item_Lost(inv, item_id, payment) ==
    IF ~Contains(inv, item_id)
    THEN Handled(inv, Err(ItemNotAvailable))
    ELSE LET item == inv[item_id]
             taken == TakeItem(inv, item_id)
         IN  IF Underpaid(payment, item)
             THEN Handled(taken, Err(ShopNotEnoughGold(payment, item.price)))
             ELSE Handled(taken, Ok(item))

\* Shop::buy_item: remove, then validate the payment, and put back on failure.
buy_item(inv, item_id, payment) ==
    IF ~Contains(inv, item_id)
    THEN Handled(inv, Err(ItemNotAvailable))
    ELSE LET item == inv[item_id]
             taken == TakeItem(inv, item_id)
         IN  IF Underpaid(payment, item)
             THEN Handled(Insert(taken, item_id, item),
                          Err(ShopNotEnoughGold(payment, item.price)))
             ELSE Handled(taken, Ok(item))

\* Shop::run, one message: the match arm of its kind.
ShopHandles(kind, done) ==
    /\ ShopReceives(kind)
    /\ Deliver(Head(shopMailbox).response, done.reply)
    /\ shopInventory' = done.inventory
    /\ shopMailbox' = Tail(shopMailbox)
    /\ UNCHANGED << wallet, inventory, mailbox, pc, localVars >>
    /\ UNCHANGED envVars

ShopListItems ==
    ShopHandles("ListItems", list_items(shopInventory))

ShopCheckPrice ==
    ShopHandles("CheckPrice",
        check_price(shopInventory, Head(shopMailbox).item_id))

ShopBuyItem ==
    ShopHandles("BuyItem",
        buy_item(shopInventory, Head(shopMailbox).item_id,
                 Head(shopMailbox).payment))

\* ------------------------------------------------------------------ Player

\* PlayerReceives with the bug of handlers spawned instead of awaited: the
\* loop takes the next message while a buy is suspended.
PlayerReceives_Interleaved(p, kind) ==
    /\ pc[p] # "dead"
    /\ mailbox[p] # << >>
    /\ Head(mailbox[p]).kind = kind

\* Player::run has received a message of this kind: the loop is in `recv`,
\* which it reaches only after the handler of the previous message returned
\* (`self.buy(..).await` is awaited inside the loop body).
PlayerReceives(p, kind) ==
    /\ pc[p] = "idle"
    /\ mailbox[p] # << >>
    /\ Head(mailbox[p]).kind = kind

\* A panic in the player's task: the task ends and the Player is dropped with
\* its receiver, so every queued message is dropped with its reply channel
\* (the callers' `response_rx.await` returns RecvError), as is the reply
\* channel of the message being handled.
Panics(p, dropped) ==
    /\ pc' = [pc EXCEPT ![p] = "dead"]
    /\ mailbox' = [mailbox EXCEPT ![p] = << >>]
    /\ calls' = [c \in DOMAIN calls |->
                    IF ToCall(c) \in dropped /\ calls[c].response = Pending
                    THEN [calls[c] EXCEPT !.response = Err(ReceiveError)]
                    ELSE calls[c]]
    /\ current' = [current EXCEPT ![p] = NoMessage]
    /\ available' = [available EXCEPT ![p] = 0]
    /\ price' = [price EXCEPT ![p] = 0]

\* Player::buy returns to Player::run: its locals are gone.
Returns(p) ==
    /\ pc' = [pc EXCEPT ![p] = "idle"]
    /\ current' = [current EXCEPT ![p] = NoMessage]
    /\ available' = [available EXCEPT ![p] = 0]
    /\ price' = [price EXCEPT ![p] = 0]
    /\ reply' = [reply EXCEPT ![p] = Pending]

\* PlayerMessage::ReceiveGold { amount } => self.wallet += amount
ReceiveGold(p) ==
    /\ PlayerReceives(p, "ReceiveGold")
    /\ \E sum \in GoldAdd(wallet[p], Head(mailbox[p]).amount) :
          IF sum.panic
          THEN /\ Panics(p, Responses(Tail(mailbox[p])))
               /\ UNCHANGED wallet
          ELSE /\ wallet' = [wallet EXCEPT ![p] = sum.value]
               /\ mailbox' = [mailbox EXCEPT ![p] = Tail(@)]
               /\ UNCHANGED << pc, localVars, calls >>
    /\ UNCHANGED << shopVars, inventory, reply >>
    /\ UNCHANGED envVars

\* PlayerMessage::Info { response }
Info(p) ==
    /\ PlayerReceives(p, "Info")
    /\ calls' = Answer(calls, Head(mailbox[p]).response.id,
                    Ok(<< wallet[p], Values(inventory[p]) >>))
    /\ mailbox' = [mailbox EXCEPT ![p] = Tail(@)]
    /\ UNCHANGED << shopVars, wallet, inventory, pc, localVars, reply >>
    /\ UNCHANGED envVars

\* Player::run takes a BuyItem message and calls Player::buy, which runs up
\* to its first await: the `self.sender.send(message).await` inside
\* `shop.check_price(item_id)`.  The message has left the player's mailbox;
\* nothing is in the shop's mailbox yet.
BuyStarts(p) ==
    /\ PlayerReceives(p, "BuyItem")
    /\ current' = [current EXCEPT ![p] = Head(mailbox[p])]
    /\ mailbox' = [mailbox EXCEPT ![p] = Tail(@)]
    /\ pc' = [pc EXCEPT ![p] = "send_check_price"]
    /\ UNCHANGED << shopVars, wallet, inventory, available, price, reply, calls >>
    /\ UNCHANGED envVars

\* The send inside `shop.check_price(item_id).await` completes: it waits for
\* room in the shop's mailbox, queues CheckPrice, and the handler suspends
\* on the reply; on a closed mailbox it fails and the call returns at once.
BuyCheckPrice(p) ==
    /\ pc[p] = "send_check_price"
    /\ IF shopRunning
       THEN /\ HasRoom(shopMailbox)
            /\ shopMailbox' = Enqueue(shopMailbox,
                                      CheckPriceMsg(current[p].item_id, ToPlayer(p)))
            /\ UNCHANGED reply
       ELSE /\ reply' = [reply EXCEPT ![p] = Err(FromSendError)]
            /\ UNCHANGED shopMailbox
    /\ pc' = [pc EXCEPT ![p] = "check_price"]
    /\ UNCHANGED << shopInventory, wallet, inventory, mailbox, localVars, calls >>
    /\ UNCHANGED envVars

\* CanAfford with the affordability check left out.
CanAfford_Always(avail, quoted) == TRUE

\* CanAfford with `<=` for `<`: a balance equal to the price is rejected.
CanAfford_Strict(avail, quoted) == ~(avail <= quoted)

\* `available < price` of Player::buy, negated: the buy goes on.
CanAfford(avail, quoted) == ~(avail < quoted)

\* `self.wallet -= price` of Player::buy.
Debit(gold, quoted) == GoldSub(gold, quoted)

\* Player::buy from the reply of check_price to its next await: the
\* affordability check, the debit, and `shop.buy_item(item_id, price)` up to
\* its `self.sender.send(message).await`.  The wallet is debited; the payment
\* is in no mailbox yet.
BuyQuoted(p) ==
    /\ pc[p] = "check_price"
    /\ reply[p] # Pending
    /\ LET message == current[p]
       IN  IF reply[p].tag # "Ok"
           THEN /\ calls' = Answer(calls, message.response.id,
                                Err(ItemNotAvailableToBuy))
                /\ Returns(p)
                /\ UNCHANGED << shopVars, wallet, mailbox >>
           ELSE LET quoted == reply[p].value
                    avail == wallet[p]
                IN  IF ~CanAfford(avail, quoted)
                    THEN /\ calls' = Answer(calls, message.response.id,
                                         Err(NotEnoughGold(avail, quoted)))
                         /\ Returns(p)
                         /\ UNCHANGED << shopVars, wallet, mailbox >>
                    ELSE \E rest \in Debit(wallet[p], quoted) :
                            IF rest.panic
                            THEN /\ Panics(p, Responses(mailbox[p]) \cup {message.response})
                                 /\ reply' = [reply EXCEPT ![p] = Pending]
                                 /\ UNCHANGED << shopVars, wallet >>
                            ELSE /\ wallet' = [wallet EXCEPT ![p] = rest.value]
                                 /\ available' = [available EXCEPT ![p] = avail]
                                 /\ price' = [price EXCEPT ![p] = quoted]
                                 /\ reply' = [reply EXCEPT ![p] = Pending]
                                 /\ pc' = [pc EXCEPT ![p] = "send_buy_item"]
                                 /\ UNCHANGED << shopVars, mailbox, current, calls >>
    /\ UNCHANGED inventory
    /\ UNCHANGED envVars

\* The send inside `shop.buy_item(item_id, price).await` completes: it waits
\* for room in the shop's mailbox, queues BuyItem with the quoted price as
\* payment, and the handler suspends on the reply; on a closed mailbox it
\* fails and the call returns at once.
BuyBuyItem(p) ==
    /\ pc[p] = "send_buy_item"
    /\ IF shopRunning
       THEN /\ HasRoom(shopMailbox)
            /\ shopMailbox' = Enqueue(shopMailbox,
                                      ShopBuyItemMsg(current[p].item_id, price[p],
                                                     ToPlayer(p)))
            /\ UNCHANGED reply
       ELSE /\ reply' = [reply EXCEPT ![p] = Err(FromSendError)]
            /\ UNCHANGED shopMailbox
    /\ pc' = [pc EXCEPT ![p] = "buy_item"]
    /\ UNCHANGED << shopInventory, wallet, inventory, mailbox, localVars, calls >>
    /\ UNCHANGED envVars

\* Refund with the compensating credit left out.
Refund_Missing(gold, quoted) == {[panic |-> FALSE, value |-> gold]}

\* `self.wallet += price` of Player::buy: the compensating credit.
Refund(gold, quoted) == GoldAdd(gold, quoted)

\* Keep with the bought good not stored.
Keep_Dropped(inv, item) == inv

\* `self.inventory.insert(item.id, item)` of Player::buy.
Keep(inv, item) == Insert(inv, item.id, item)

\* Player::buy from the reply of buy_item to its end.
BuyDone(p) ==
    /\ pc[p] = "buy_item"
    /\ reply[p] # Pending
    /\ LET message == current[p]
       IN  IF reply[p].tag # "Ok"
           THEN \E back \in Refund(wallet[p], price[p]) :
                   IF back.panic
                   THEN /\ Panics(p, Responses(mailbox[p]) \cup {message.response})
                        /\ reply' = [reply EXCEPT ![p] = Pending]
                        /\ UNCHANGED << wallet, inventory >>
                   ELSE /\ wallet' = [wallet EXCEPT ![p] = back.value]
                        /\ calls' = Answer(calls, message.response.id,
                                        Err(ItemNotAvailableToBuy))
                        /\ Returns(p)
                        /\ UNCHANGED << inventory, mailbox >>
           ELSE LET item == reply[p].value
                IN  /\ calls' = Answer(calls, message.response.id, Ok(item))
                    /\ inventory' = [inventory EXCEPT ![p] = Keep(@, item)]
                    /\ Returns(p)
                    /\ UNCHANGED << wallet, mailbox >>
    /\ UNCHANGED shopVars
    /\ UNCHANGED envVars

\* ----------------------------------------------------------- specification

Next ==
    \/ \E p \in Players, item_id \in AskedItems : CallBuy(p, item_id)
    \/ \E p \in Players, amount \in ReceivedAmounts : CallReceiveGold(p, amount)
    \/ \E p \in Players : CallInfo(p)
    \/ CallListItems
    \/ \E item_id \in AskedItems : CallCheckPrice(item_id)
    \/ \E item_id \in AskedItems, payment \in Payments : CallBuyItem(item_id, payment)
    \/ ShopListItems
    \/ ShopCheckPrice
    \/ ShopBuyItem
    \/ \E p \in Players : ReceiveGold(p)
    \/ \E p \in Players : Info(p)
    \/ \E p \in Players : BuyStarts(p)
    \/ \E p \in Players : BuyCheckPrice(p)
    \/ \E p \in Players : BuyQuoted(p)
    \/ \E p \in Players : BuyBuyItem(p)
    \/ \E p \in Players : BuyDone(p)

Spec == Init /\ [][Next]_vars

\* The loop task of the shop (`tokio::spawn(shop.run())`): one message.
ShopNext == ShopListItems \/ ShopCheckPrice \/ ShopBuyItem

\* The loop task of a player (`tokio::spawn(player.run())`): one message, or
\* one continuation of a suspended buy.
PlayerNext(p) ==
    \/ ReceiveGold(p)
    \/ Info(p)
    \/ BuyStarts(p)
    \/ BuyCheckPrice(p)
    \/ BuyQuoted(p)
    \/ BuyBuyItem(p)
    \/ BuyDone(p)

\* The runtime polls every spawned task that has been woken: a loop task
\* with a message to take, or with the reply it awaits, eventually runs.
FairSpec ==
    /\ Spec
    /\ WF_vars(ShopNext)
    /\ \A p \in Players : WF_vars(PlayerNext(p))

\* A driver drops the future of a call it made while it awaits the reply
\* (`response_rx.await` in the methods of PlayerHandle and ShopHandle): the
\* message stays where it is, its reply channel has lost its receiver.
Abandon(c) ==
    /\ calls[c].response = Pending
    /\ calls' = [calls EXCEPT ![c].response = Abandoned]
    /\ UNCHANGED << shopVars, wallet, inventory, mailbox, pc, localVars, reply,
                    envVars >>

AbandonNext ==
    \/ Next
    \/ \E c \in DOMAIN calls : Abandon(c)

\* The program with callers that may give up waiting.
AbandonSpec == Init /\ [][AbandonNext]_vars

\* The drivers drop their ShopHandle (and every clone they hold).
DropShopHandle ==
    /\ shopHandle
    /\ shopHandle' = FALSE
    /\ UNCHANGED << shopVars, wallet, inventory, mailbox, pc, localVars, reply,
                    calls, initial, shopRunning >>

\* HandleHeld with the ShopHandle inside the BuyItem messages forgotten.
HandleHeld_Ignored(p) == FALSE

\* The player's task holds a ShopHandle: the `shop` field of a BuyItem
\* message in its mailbox, or the `shop` argument of a suspended Player::buy.
HandleHeld(p) ==
    \/ pc[p] \in {"send_check_price", "check_price", "send_buy_item", "buy_item"}
    \/ \E k \in 1 .. Len(mailbox[p]) : mailbox[p][k].kind = "BuyItem"

\* `self.receiver.recv().await` of Shop::run returns None, and the loop
\* ends: every Sender is dropped and the queue is empty.
ShopExits ==
    /\ shopRunning
    /\ ~shopHandle
    /\ \A p \in Players : ~HandleHeld(p)
    /\ shopMailbox = << >>
    /\ shopRunning' = FALSE
    /\ UNCHANGED << shopVars, wallet, inventory, mailbox, pc, localVars, reply,
                    calls, initial, shopHandle >>

LifetimeNext ==
    \/ Next
    \/ DropShopHandle
    \/ ShopExits

\* The program with drivers that let go of the shop.
LifetimeSpec == Init /\ [][LifetimeNext]_vars

\* The shop's task is dropped while it waits in `recv` (the runtime that
\* runs it shuts down): its receiver is dropped, and with it the queued
\* messages and their reply channels, whose receivers get RecvError.
ShopTaskDropped ==
    /\ shopRunning
    /\ shopRunning' = FALSE
    /\ shopMailbox' = << >>
    /\ calls' = [c \in DOMAIN calls |->
                    IF ToCall(c) \in Responses(shopMailbox)
                          /\ calls[c].response = Pending
                    THEN [calls[c] EXCEPT !.response = Err(FromRecvError)]
                    ELSE calls[c]]
    /\ reply' = [p \in Players |->
                    IF ToPlayer(p) \in Responses(shopMailbox)
                    THEN Err(FromRecvError)
                    ELSE reply[p]]
    /\ UNCHANGED << shopInventory, wallet, inventory, mailbox, pc, localVars,
                    initial, shopHandle >>

ClosingNext ==
    \/ Next
    \/ ShopTaskDropped

\* The program with a shop whose task may end under its handles.
ClosingSpec == Init /\ [][ClosingNext]_vars

\* ------------------------------------------------------- reading the calls

Returned(c) == calls[c].response # Pending

Succeeded(c) == calls[c].response.tag = "Ok"

Failed(c, error) == calls[c].response = Err(error)

\* A purchase attempt: PlayerHandle::buy, or ShopHandle::buy_item called directly.
IsPurchase(c) == calls[c].op \in {"buy", "buy_item"}

SameGood(c, d) == calls[c].item_id = calls[d].item_id

\* Two calls neither of which had returned when the other was made.
Concurrent(c, d) == c \in calls[d].overlaps \/ d \in calls[c].overlaps

\* ------------------------------------------------------------------ claims

\* C1: among all purchase attempts (PlayerHandle::buy or a direct
\* ShopHandle::buy_item) on the same good of the shop, at most one
\* returns success.  (No operation of the source adds a good to a shop.)
C1_NoDoubleSale ==
    \A c, d \in DOMAIN calls :
        ( /\ IsPurchase(c) /\ IsPurchase(d) /\ SameGood(c, d)
          /\ Succeeded(c) /\ Succeeded(d) ) => c = d

\* Two concurrent attempts on one good have both returned, one with the good
\* and the other with a failure.
C1_Witness ==
    \E c, d \in DOMAIN calls :
        /\ c # d /\ IsPurchase(c) /\ IsPurchase(d) /\ SameGood(c, d)
        /\ Concurrent(c, d)
        /\ Succeeded(c)
        /\ Returned(d) /\ ~Succeeded(d)

\* Two buys of different players for the same good, which the shop held at
\* the start, made concurrently.
RacingBuys(c, d) ==
    /\ c # d
    /\ calls[c].op = "buy" /\ calls[d].op = "buy"
    /\ calls[c].player # calls[d].player
    /\ SameGood(c, d)
    /\ calls[c].item_id \in InitialStock
    /\ Concurrent(c, d)

\* No purchase attempt on the good of c other than c and d.
NoThirdPurchase(c, d) ==
    \A e \in DOMAIN calls : (IsPurchase(e) /\ SameGood(e, c)) => e \in {c, d}

\* The buy was handled by a player's task: it returned, and not with the
\* error of a closed mailbox or of a dropped reply channel.
Handled_Buy(c) ==
    Returned(c) /\ ~Failed(c, SendError) /\ ~Failed(c, ReceiveError)

\* C2 as stated: of two concurrent buys of different players for the same
\* good, exactly one succeeds and the other returns ItemNotAvailableToBuy
\* (read for two buys that both players handled and that no third attempt
\* on the good disturbs).
C2_ExactlyOneSucceeds ==
    \A c, d \in DOMAIN calls :
        (RacingBuys(c, d) /\ Handled_Buy(c) /\ Handled_Buy(d)
            /\ NoThirdPurchase(c, d)) =>
            \/ Succeeded(c) /\ Failed(d, ItemNotAvailableToBuy)
            \/ Succeeded(d) /\ Failed(c, ItemNotAvailableToBuy)

\* C2 amended: of two concurrent buys of different players for the same good,
\* at most one succeeds; a buy that fails returns ItemNotAvailableToBuy,
\* NotEnoughGold with a balance below the price, or the error of a player
\* whose task has ended; and when neither fails for the last two reasons
\* and nobody else attempts the good, exactly one succeeds and the other
\* returns ItemNotAvailableToBuy.
C2_AtMostOneSucceeds ==
    \A c, d \in DOMAIN calls :
        (RacingBuys(c, d) /\ Returned(c) /\ Returned(d)) =>
            LET cost == ItemOf(calls[c].item_id).price
                Lost(e) ==
                    \/ Failed(e, ItemNotAvailableToBuy)
                    \/ \E a \in 0 .. (cost - 1) : Failed(e, NotEnoughGold(a, cost))
                    \/ Failed(e, SendError)
                    \/ Failed(e, ReceiveError)
                Raced(e) == Succeeded(e) \/ Failed(e, ItemNotAvailableToBuy)
            IN  /\ ~(Succeeded(c) /\ Succeeded(d))
                /\ Succeeded(c) \/ Lost(c)
                /\ Succeeded(d) \/ Lost(d)
                /\ (Raced(c) /\ Raced(d) /\ NoThirdPurchase(c, d)) =>
                       \/ Succeeded(c) /\ Failed(d, ItemNotAvailableToBuy)
                       \/ Succeeded(d) /\ Failed(c, ItemNotAvailableToBuy)

\* Two racing buys that nobody else disturbs have returned: one with the
\* good, the other with ItemNotAvailableToBuy.
C2_Witness ==
    \E c, d \in DOMAIN calls :
        /\ RacingBuys(c, d) /\ NoThirdPurchase(c, d)
        /\ Succeeded(c) /\ Failed(d, ItemNotAvailableToBuy)

\* C3: when buy_item fails after the debit, the handler ends with the wallet
\* at the balance it had immediately before the debit (the local
\* `available`) and with the inventory as it was.
C3_Compensation ==
    [][ \A p \in Players :
           ( /\ pc[p] = "buy_item"
             /\ reply[p].tag = "Err"
             /\ pc'[p] # "buy_item" ) =>
               /\ pc'[p] = "idle"
               /\ wallet'[p] = available[p]
               /\ inventory'[p] = inventory[p]
               /\ calls'[current[p].response.id].response = Err(ItemNotAvailableToBuy)
      ]_vars

\* A player has debited the price and the shop has answered its buy_item
\* with an error: the handler is about to compensate.
C3_Witness ==
    \E p \in Players :
        /\ pc[p] = "buy_item"
        /\ reply[p].tag = "Err"
        /\ price[p] > 0
        /\ wallet[p] = available[p] - price[p]

\* C4: a wallet is always a value of the unsigned range, and the debit is
\* only made with the price at most the balance: while a buy is suspended
\* on buy_item the wallet is exactly the balance before the debit less the
\* price, with no wrap-around.
C4_NoUnderflow ==
    \A p \in Players :
        /\ wallet[p] \in 0 .. GoldMax
        /\ pc[p] \in {"send_buy_item", "buy_item"} =>
               /\ price[p] <= available[p]
               /\ wallet[p] = available[p] - price[p]

\* A player whose balance was exactly the price has paid it: the wallet is 0.
C4_Witness ==
    \E p \in Players :
        /\ pc[p] = "buy_item"
        /\ price[p] > 0
        /\ available[p] = price[p]
        /\ wallet[p] = 0

\* ------------------------------------------------------ reading the steps

\* The call that the suspended buy of p answers.
CallOf(p) == current[p].response.id

\* The step is the handling of one message by the shop.
ShopStep ==
    /\ shopMailbox # << >>
    /\ shopMailbox' = Tail(shopMailbox)

\* What the reply channel holds after the step.
Delivered(response) ==
    IF response.to = "call" THEN calls'[response.id].response ELSE reply'[response.id]

\* The step is the part of Player::buy that runs on the reply of check_price.
QuotedStep(p) == pc[p] = "check_price" /\ pc'[p] # "check_price"

\* The step is the part of Player::buy that runs on the reply of buy_item.
DoneStep(p) == pc[p] = "buy_item" /\ pc'[p] # "buy_item"

\* No purchase attempt on the good that p is buying other than p's own.
SolePurchaser(p) ==
    \A e \in DOMAIN calls :
        (IsPurchase(e) /\ calls[e].item_id = current[p].item_id) => e = CallOf(p)

\* C5 as stated: over each handled message the balance is lower only after
\* a buy that returned success, and then by exactly the price of the good
\* that the shop took out of its inventory and handed over; ReceiveGold,
\* Info and a failed buy never leave it lower.
C5_BalanceOnlyPaysPrices ==
    [][ \A p \in Players :
           /\ pc[p] = "idle" => wallet'[p] >= wallet[p]
           /\ (QuotedStep(p) /\ pc'[p] # "send_buy_item") => wallet'[p] = wallet[p]
           /\ (QuotedStep(p) /\ pc'[p] = "send_buy_item") => available'[p] = wallet[p]
           /\ (pc[p] \in {"send_buy_item", "buy_item"} /\ ~DoneStep(p)) =>
                 wallet'[p] = wallet[p]
           /\ (pc[p] \in {"send_check_price", "check_price"} /\ ~QuotedStep(p)) =>
                 wallet'[p] = wallet[p]
           /\ DoneStep(p) =>
                 IF calls'[CallOf(p)].response.tag = "Ok"
                 THEN /\ reply[p].tag = "Ok"
                      /\ ~Contains(shopInventory, reply[p].value.id)
                      /\ wallet'[p] = available[p] - reply[p].value.price
                 ELSE wallet'[p] = available[p]
      ]_vars

\* C6: a good that started in a shop is never at once in that shop and in a
\* player's inventory, nor in the inventories of two players.
C6_SingleOwner ==
    \A id \in InitialStock :
        /\ \A p \in Players :
               ~(Contains(shopInventory, id) /\ Contains(inventory[p], id))
        /\ \A p, q \in Players :
               (Contains(inventory[p], id) /\ Contains(inventory[q], id)) => p = q

\* A good has moved from the shop to a player.
C6_Witness ==
    \E id \in InitialStock : \E p \in Players :
        /\ Contains(inventory[p], id)
        /\ inventory[p][id] = ItemOf(id)
        /\ ~Contains(shopInventory, id)

\* C7: a buy for a good the shop started with, which no other purchase
\* attempt targets, is quoted the good's price; with a balance of at least
\* the price it debits exactly the price and asks for the good; and it ends
\* returning the good, with the wallet at the balance before the debit less
\* the price, the good in the player's inventory and not in the shop's.
C7_SoleBuyerSucceeds ==
    [][ \A p \in Players :
           ( /\ pc[p] # "idle" /\ pc[p] # "dead"
             /\ current[p].item_id \in InitialStock
             /\ SolePurchaser(p) ) =>
               LET good == ItemOf(current[p].item_id)
               IN  /\ QuotedStep(p) =>
                         /\ reply[p] = Ok(good.price)
                         /\ wallet[p] >= good.price =>
                                /\ pc'[p] = "send_buy_item"
                                /\ available'[p] = wallet[p]
                                /\ wallet'[p] = wallet[p] - good.price
                   /\ (pc[p] = "send_buy_item" /\ pc'[p] = "buy_item") =>
                         /\ wallet'[p] = wallet[p]
                         /\ shopMailbox' =
                                Append(shopMailbox,
                                       ShopBuyItemMsg(good.id, good.price, ToPlayer(p)))
                   /\ DoneStep(p) =>
                         /\ reply[p] = Ok(good)
                         /\ calls'[CallOf(p)].response = Ok(good)
                         /\ wallet'[p] = available[p] - good.price
                         /\ Contains(inventory'[p], good.id)
                         /\ inventory'[p][good.id] = good
                         /\ ~Contains(shopInventory', good.id)
      ]_vars

\* The only attempt on the Sword has returned it: the buyer is left with 900
\* and has the Sword, the shop has it no more.
C7_Witness ==
    \E c \in DOMAIN calls :
        /\ calls[c].op = "buy"
        /\ \A e \in DOMAIN calls : (IsPurchase(e) /\ SameGood(e, c)) => e = c
        /\ calls[c].response = Ok(ItemOf(0))
        /\ wallet[calls[c].player] = 900
        /\ Contains(inventory[calls[c].player], 0)
        /\ ~Contains(shopInventory, 0)

\* C8: a quoted price strictly above the balance makes buy return
\* NotEnoughGold with that balance and that price, with the wallet, the
\* inventory, the shop's mailbox and the shop's inventory as they were; a
\* balance equal to the price is not rejected: the buy goes on to buy_item.
C8_NotEnoughGold ==
    [][ \A p \in Players :
           (QuotedStep(p) /\ reply[p].tag = "Ok") =>
               LET quoted == reply[p].value
               IN  /\ quoted > wallet[p] =>
                         /\ calls'[CallOf(p)].response =
                                Err(NotEnoughGold(wallet[p], quoted))
                         /\ pc'[p] = "idle"
                         /\ wallet'[p] = wallet[p]
                         /\ inventory'[p] = inventory[p]
                         /\ shopMailbox' = shopMailbox
                         /\ shopInventory' = shopInventory
                   /\ quoted = wallet[p] =>
                         /\ pc'[p] = "send_buy_item"
                         /\ calls'[CallOf(p)].response = Pending
      ]_vars

\* A buy of the Sword by a player holding 50 has returned NotEnoughGold.
C8_Witness ==
    \E c \in DOMAIN calls :
        /\ calls[c].op = "buy"
        /\ calls[c].response = Err(NotEnoughGold(50, 100))
        /\ wallet[calls[c].player] = 50
        /\ inventory[calls[c].player] = Collect({})

\* C9: check_price and buy_item for a good the shop does not hold reply
\* ItemNotAvailable and leave the shop's inventory as it was; a buy whose
\* check_price fails returns ItemNotAvailableToBuy with the wallet, the
\* player's inventory, the shop's inventory and the shop's mailbox as they were.
C9_UnknownGood ==
    [][ /\ ( /\ ShopStep
               /\ Head(shopMailbox).kind \in {"CheckPrice", "BuyItem"}
               /\ ~Contains(shopInventory, Head(shopMailbox).item_id) ) =>
                 /\ Delivered(Head(shopMailbox).response) = Err(ItemNotAvailable)
                 /\ shopInventory' = shopInventory
        /\ \A p \in Players :
              (QuotedStep(p) /\ reply[p].tag = "Err") =>
                  /\ calls'[CallOf(p)].response = Err(ItemNotAvailableToBuy)
                  /\ pc'[p] = "idle"
                  /\ wallet'[p] = wallet[p]
                  /\ inventory'[p] = inventory[p]
                  /\ shopInventory' = shopInventory
                  /\ shopMailbox' = shopMailbox
      ]_vars

\* A buy for a good the shop never held has returned ItemNotAvailableToBuy.
C9_Witness ==
    \E c \in DOMAIN calls :
        /\ calls[c].op = "buy"
        /\ calls[c].item_id \notin InitialStock
        /\ Failed(c, ItemNotAvailableToBuy)
        /\ inventory[calls[c].player] = Collect({})
        /\ shopInventory = Collect(InitialStock)

\* Two results of one read operation differ only by goods that have been sold.
SameUntilSold ==
    \A c, d \in DOMAIN calls :
        (calls[c].op = calls[d].op /\ Returned(c) /\ Returned(d)) =>
            /\ ( /\ calls[c].op = "check_price"
                 /\ calls[c].item_id = calls[d].item_id
                 /\ calls[c].response # calls[d].response ) =>
                   ~Contains(shopInventory, calls[c].item_id)
            /\ calls[c].op = "list_items" =>
                   \A item \in calls[c].response.value \ calls[d].response.value :
                       ~Contains(shopInventory, item.id)

\* C10: list_items and check_price leave the shop's inventory as it was; the
\* inventory changes only in a buy_item that hands over a good; so the
\* results of two check_price for one good, or of two list_items, differ only
\* when a sale has taken place.
C10_ReadsChangeNothing ==
    /\ []SameUntilSold
    /\ [][ /\ (ShopStep /\ Head(shopMailbox).kind \in {"ListItems", "CheckPrice"}) =>
                 shopInventory' = shopInventory
           /\ shopInventory' # shopInventory =>
                 /\ ShopStep
                 /\ Head(shopMailbox).kind = "BuyItem"
                 /\ Delivered(Head(shopMailbox).response).tag = "Ok"
         ]_vars

\* Two check_price for the Sword have been answered with the shop still
\* holding it: the same price twice.
C10_Witness ==
    \E c, d \in DOMAIN calls :
        /\ c # d
        /\ calls[c].op = "check_price" /\ calls[d].op = "check_price"
        /\ calls[c].item_id = 0 /\ calls[d].item_id = 0
        /\ calls[c].response = Ok(100) /\ calls[d].response = Ok(100)
        /\ Contains(shopInventory, 0)

\* C11: a buy_item for a good the shop holds with a payment strictly below
\* its price replies NotEnoughGold with that payment and that price and
\* leaves the shop's inventory exactly as it was before the message; with a
\* payment of at least the price it replies with the good, and the good is
\* gone from the inventory (and nothing else is).
C11_UnderpaymentPutsBack ==
    [][ ( /\ ShopStep
          /\ Head(shopMailbox).kind = "BuyItem"
          /\ Contains(shopInventory, Head(shopMailbox).item_id) ) =>
            LET message == Head(shopMailbox)
                item == shopInventory[message.item_id]
            IN  IF message.payment < item.price
                THEN /\ Delivered(message.response) =
                            Err(ShopNotEnoughGold(message.payment, item.price))
                     /\ shopInventory' = shopInventory
                ELSE /\ Delivered(message.response) = Ok(item)
                     /\ ~Contains(shopInventory', message.item_id)
                     /\ shopInventory' = Remove(shopInventory, message.item_id)
      ]_vars

\* A buy_item for the Sword paying 50 was refused with NotEnoughGold(50, 100),
\* and a later buy_item for the Sword paying 100 was handed the Sword.
C11_Witness ==
    \E c, d \in DOMAIN calls :
        /\ c < d
        /\ calls[c].op = "buy_item" /\ calls[d].op = "buy_item"
        /\ calls[c].item_id = 0 /\ calls[d].item_id = 0
        /\ calls[c].gold = 50 /\ calls[d].gold = 100
        /\ calls[c].response = Err(ShopNotEnoughGold(50, 100))
        /\ calls[d].response = Ok(ItemOf(0))
        /\ ~Contains(shopInventory, 0)

\* The player's task is suspended inside Player::buy.
Suspended(p) ==
    pc[p] \in {"send_check_price", "check_price", "send_buy_item", "buy_item"}

\* Nothing has been taken from the front of the queue.
IsPrefix(s, t) == Len(s) <= Len(t) /\ SubSeq(t, 1, Len(s)) = s

\* C12: while a player's buy is suspended on check_price or on buy_item the
\* player takes no message from its mailbox, and its wallet and inventory
\* are changed by nothing but the continuation of that handler; so a buy
\* that is at its affordability check (suspended on check_price) finds no
\* debit of that player outstanding.
C12_HandlersDoNotInterleave ==
    /\ [](\A p \in Players :
             pc[p] \in {"send_check_price", "check_price"} =>
                 (price[p] = 0 /\ available[p] = 0))
    /\ [][ \A p \in Players :
              Suspended(p) =>
                  /\ pc'[p] # "dead" => IsPrefix(mailbox[p], mailbox'[p])
                  /\ ~(QuotedStep(p) \/ DoneStep(p)) =>
                         /\ wallet'[p] = wallet[p]
                         /\ inventory'[p] = inventory[p]
                         /\ current'[p] = current[p]
         ]_vars

\* A player has debited the price and is suspended on buy_item while a
\* second buy for it waits in its mailbox.
C12_Witness ==
    \E p \in Players :
        /\ pc[p] = "buy_item"
        /\ price[p] > 0
        /\ wallet[p] = available[p] - price[p]
        /\ mailbox[p] # << >>
        /\ Head(mailbox[p]).kind = "BuyItem"

\* The buy was accepted into the player's mailbox.
Accepted(c) ==
    /\ c \in DOMAIN calls
    /\ calls[c].op = "buy"
    /\ ~Failed(c, SendError)

\* The buy has received the reply of its handler.
Replied(c) == c \in DOMAIN calls /\ Handled_Buy(c)

\* Some call waits for its reply and no loop task can take a step.
Stuck ==
    /\ \E c \in DOMAIN calls : ~Returned(c)
    /\ ~ENABLED (ShopNext \/ \E p \in Players : PlayerNext(p))

\* C13 as stated: no reachable state with a waiting caller is a deadlock,
\* no accepted buy loses its reply channel unanswered, and under fair
\* scheduling of the loop tasks every buy accepted into a player's mailbox
\* eventually receives the reply of its handler.
C13_EveryBuyIsAnswered ==
    /\ []~Stuck
    /\ [](\A c \in DOMAIN calls : Accepted(c) => ~Failed(c, ReceiveError))
    /\ \A c \in 1 .. MaxCalls : Accepted(c) ~> Replied(c)

\* ------------------------------------------------------ reading the wallet

RECURSIVE SumOf(_, _)
\* The sum of f over the finite set S.
SumOf(f, S) ==
    IF S = {} THEN 0
    ELSE LET x == CHOOSE y \in S : TRUE
         IN  f[x] + SumOf(f, S \ {x})

\* The receive_gold calls on p whose send completed before call d was made.
ReceivedBefore(p, d) ==
    {c \in DOMAIN calls :
        /\ c < d
        /\ calls[c].op = "receive_gold"
        /\ calls[c].player = p
        /\ Succeeded(c)}

\* The prices of the goods p has bought (a player starts without goods).
Spent(p) ==
    SumOf([id \in DOMAIN inventory[p] |-> inventory[p][id].price],
          DOMAIN inventory[p])

\* The balance of p, in the arithmetic of Gold's u64, once exactly the
\* ReceiveGold messages sent before call d have been handled.
BalanceAt(p, d) ==
    ( initial[p]
      + SumOf([c \in ReceivedBefore(p, d) |-> calls[c].gold], ReceivedBefore(p, d))
      + GoldModulus - Spent(p) ) % GoldModulus

\* C14: the messages sent through a player's handle are handled in the
\* order of their sends.  An info reports, and the affordability check of a
\* buy is made on, the balance that holds every amount whose receive_gold
\* send completed before the info or the buy was sent (and none sent
\* after it), the addition being that of Gold's u64.
C14_HandledInSendOrder ==
    [][ \A p \in Players :
           /\ ( /\ PlayerReceives(p, "Info")
                /\ mailbox'[p] = Tail(mailbox[p]) ) =>
                  LET d == Head(mailbox[p]).response.id
                  IN  calls'[d].response =
                          Ok(<< BalanceAt(p, d), Values(inventory[p]) >>)
           /\ (QuotedStep(p) /\ reply[p].tag = "Ok") =>
                  /\ wallet[p] = BalanceAt(p, CallOf(p))
                  /\ pc'[p] = "send_buy_item" <=> wallet[p] >= reply[p].value
      ]_vars

\* A player constructed with 50 was sent a receive_gold of 50 and then a buy
\* of the Sword (price 100): the buy passed the affordability check and
\* returned the Sword, leaving the wallet at 0.
C14_Witness ==
    \E c, d \in DOMAIN calls :
        /\ c < d
        /\ calls[c].op = "receive_gold" /\ calls[d].op = "buy"
        /\ calls[c].player = calls[d].player
        /\ calls[c].gold = 50
        /\ initial[calls[d].player] = 50
        /\ calls[d].response = Ok(ItemOf(0))
        /\ wallet[calls[d].player] = 0

\* The caller of the buy that p is handling has dropped its reply await.
CallerGone(p) == Suspended(p) /\ calls[CallOf(p)].response = Abandoned

\* C15: a caller abandoning its reply await changes nothing but its own
\* receiver; the player whose buy has lost its caller still continues the
\* handler at every reply of the shop (and at every send for which the
\* shop's mailbox has room), and ends it idle (never dead) in one
\* of the two consistent states: wallet at the balance before the debit less
\* the price with the good in its inventory, or wallet and inventory as
\* before the buy; the reply send to the absent caller has no effect; and
\* the messages queued behind the buy stay in the mailbox to be handled.
C15_AbandonedBuyCompletes ==
    /\ [](\A p \in Players :
             ( /\ CallerGone(p)
               /\ \/ reply[p] # Pending
                  \/ /\ pc[p] \in {"send_check_price", "send_buy_item"}
                     /\ HasRoom(shopMailbox) ) =>
                 ENABLED PlayerNext(p))
    /\ [][ /\ \A c \in DOMAIN calls :
                 (calls[c].response = Pending /\ calls'[c].response = Abandoned) =>
                     UNCHANGED << shopVars, wallet, inventory, mailbox, pc,
                                  localVars, reply >>
           /\ \A p \in Players :
                 CallerGone(p) =>
                     /\ pc'[p] # "dead"
                     /\ calls'[CallOf(p)].response = Abandoned
                     /\ IsPrefix(mailbox[p], mailbox'[p])
                     /\ QuotedStep(p) =>
                            /\ inventory'[p] = inventory[p]
                            /\ \/ /\ pc'[p] = "idle"
                                  /\ wallet'[p] = wallet[p]
                               \/ /\ pc'[p] = "send_buy_item"
                                  /\ reply[p].tag = "Ok"
                                  /\ available'[p] = wallet[p]
                                  /\ wallet'[p] = wallet[p] - reply[p].value
                     /\ DoneStep(p) =>
                            /\ pc'[p] = "idle"
                            /\ IF reply[p].tag = "Ok"
                               THEN /\ wallet'[p] = available[p] - price[p]
                                    /\ inventory'[p] =
                                           Insert(inventory[p], reply[p].value.id,
                                                  reply[p].value)
                               ELSE /\ wallet'[p] = available[p]
                                    /\ inventory'[p] = inventory[p]
         ]_vars

\* The caller of a buy of the Sword gave up waiting; the player, constructed
\* with 1000, finished the purchase all the same and then answered an info
\* sent after the buy: 900 gold and the Sword.
C15_Witness ==
    \E c, d \in DOMAIN calls :
        /\ c < d
        /\ calls[c].op = "buy" /\ calls[c].item_id = 0
        /\ calls[c].response = Abandoned
        /\ calls[d].op = "info" /\ calls[d].player = calls[c].player
        /\ calls[d].response = Ok(<< 900, {ItemOf(0)} >>)
        /\ pc[calls[c].player] = "idle"
        /\ ~Contains(shopInventory, 0)

\* The step is a driver making call number NextCall.
CallStep == Len(calls') = Len(calls) + 1

\* C16: a check_price made through a ShopHandle after the shop's task has
\* ended returns ShopClosed at once, with nothing queued; NoResponse is
\* returned only by a check_price whose message had been accepted into the
\* mailbox and whose reply channel was dropped unanswered when the task
\* ended; the two are different errors, and neither turns into the other.
C16_ClosedIsNotNoResponse ==
    /\ [](FromSendError # FromRecvError)
    /\ [][ /\ (CallStep /\ calls'[NextCall].op = "check_price") =>
                 IF shopRunning
                 THEN /\ calls'[NextCall].response = Pending
                      /\ shopMailbox' =
                             Append(shopMailbox,
                                    CheckPriceMsg(calls'[NextCall].item_id,
                                                  ToCall(NextCall)))
                 ELSE /\ calls'[NextCall].response = Err(ShopClosed)
                      /\ shopMailbox' = shopMailbox
           /\ \A c \in DOMAIN calls :
                 calls[c].op = "check_price" =>
                     /\ ( /\ calls'[c].response = Err(NoResponse)
                          /\ calls[c].response # Err(NoResponse) ) =>
                            /\ calls[c].response = Pending
                            /\ ToCall(c) \in Responses(shopMailbox)
                            /\ shopRunning /\ ~shopRunning'
                     /\ calls'[c].response = Err(ShopClosed) =>
                            calls[c].response = Err(ShopClosed)
         ]_vars

\* One check_price was accepted and lost its reply channel when the shop's
\* task ended (NoResponse); another, made afterwards, was refused (ShopClosed).
C16_Witness ==
    \E c, d \in DOMAIN calls :
        /\ c < d
        /\ calls[c].op = "check_price" /\ calls[d].op = "check_price"
        /\ calls[c].response = Err(NoResponse)
        /\ calls[d].response = Err(ShopClosed)
        /\ ~shopRunning

\* C17: the payment of a buy_item sent by Player::buy is the price quoted to
\* that handler by its check_price, which is the price the good has whenever
\* the shop holds it; so the shop never answers a player's buy_item with
\* NotEnoughGold, and the only failure a suspended buy sees (no task having
\* ended) is ItemNotAvailable.
C17_NeverUnderpaid ==
    /\ \A k \in 1 .. Len(shopMailbox) :
          ( /\ shopMailbox[k].kind = "BuyItem"
            /\ shopMailbox[k].response.to = "player" ) =>
              LET p == shopMailbox[k].response.id
              IN  /\ pc[p] = "buy_item"
                  /\ shopMailbox[k].payment = price[p]
                  /\ shopMailbox[k].item_id = current[p].item_id
                  /\ shopMailbox[k].payment = ItemOf(shopMailbox[k].item_id).price
                  /\ Contains(shopInventory, shopMailbox[k].item_id) =>
                         shopInventory[shopMailbox[k].item_id].price =
                             shopMailbox[k].payment
    /\ \A p \in Players :
          /\ pc[p] = "send_buy_item" =>
                price[p] = ItemOf(current[p].item_id).price
          /\ (pc[p] = "buy_item" /\ reply[p].tag = "Err") =>
                reply[p] = Err(ItemNotAvailable)

\* A player paid the quoted price of a good that was sold to someone else
\* in between: the shop answered its buy_item with ItemNotAvailable.
C17_Witness ==
    \E p \in Players :
        /\ pc[p] = "buy_item"
        /\ price[p] = ItemOf(current[p].item_id).price
        /\ reply[p] = Err(ItemNotAvailable)
        /\ ~Contains(shopInventory, current[p].item_id)

\* The good is where a sale can have put it: in the shop, in a player's
\* inventory, in the reply that a debited player is about to receive, or in
\* the reply to a direct buy_item call.
Accounted(id) ==
    \/ Contains(shopInventory, id)
    \/ \E p \in Players : Contains(inventory[p], id)
    \/ \E p \in Players :
          /\ pc[p] = "buy_item"
          /\ reply[p] = Ok(ItemOf(id))
          /\ wallet[p] = available[p] - ItemOf(id).price
    \/ \E c \in DOMAIN calls :
          calls[c].op = "buy_item" /\ calls[c].response = Ok(ItemOf(id))

\* The step is the compensating credit of p.
RefundStep(p) == DoneStep(p) /\ wallet'[p] # wallet[p]

\* C18: the shop takes a good out for a player's buy_item exactly when it
\* answers that request with the good; the answer a suspended buy has
\* received does not change until the handler reads it; and the handler
\* makes the compensating credit only on an error answer.  So no good
\* leaves the shop for a player that is refunded: every good of the
\* initial stock is in the shop, with a player, or on its way to a player
\* whose wallet is debited by its price.
C18_RefundOnlyWhenNotSold ==
    /\ [](\A id \in InitialStock : Accounted(id))
    /\ [][ /\ ( /\ ShopStep
                 /\ Head(shopMailbox).kind = "BuyItem"
                 /\ Head(shopMailbox).response.to = "player" ) =>
                   LET p == Head(shopMailbox).response.id
                       id == Head(shopMailbox).item_id
                   IN  IF shopInventory' # shopInventory
                       THEN /\ reply'[p] = Ok(shopInventory[id])
                            /\ shopInventory' = Remove(shopInventory, id)
                       ELSE /\ reply'[p].tag = "Err"
                            /\ ~Contains(shopInventory, id)
           /\ \A p \in Players :
                 /\ ( /\ pc[p] = "buy_item" /\ reply[p] # Pending
                      /\ ~DoneStep(p) ) => reply'[p] = reply[p]
                 /\ RefundStep(p) =>
                        /\ reply[p].tag = "Err"
                        /\ wallet'[p] = available[p]
                        /\ inventory'[p] = inventory[p]
                 /\ (DoneStep(p) /\ reply[p].tag = "Ok") =>
                        /\ wallet'[p] = wallet[p]
                        /\ Contains(inventory'[p], reply[p].value.id)
         ]_vars

\* Two players wanted the Sword: one has it and has paid 100, the other was
\* refunded and holds what it was constructed with and no good.
C18_Witness ==
    \E c, d \in DOMAIN calls :
        /\ calls[c].op = "buy" /\ calls[d].op = "buy"
        /\ calls[c].item_id = 0 /\ calls[d].item_id = 0
        /\ calls[c].response = Ok(ItemOf(0))
        /\ Failed(d, ItemNotAvailableToBuy)
        /\ calls[c].player # calls[d].player
        /\ wallet[calls[c].player] = initial[calls[c].player] - 100
        /\ Contains(inventory[calls[c].player], 0)
        /\ initial[calls[d].player] >= 100
        /\ wallet[calls[d].player] = initial[calls[d].player]
        /\ inventory[calls[d].player] = Collect({})
        /\ ~Contains(shopInventory, 0)

\* The goods that the buys of p have returned.
Bought(p) ==
    {calls[c].response.value :
        c \in {b \in DOMAIN calls :
                  calls[b].op = "buy" /\ calls[b].player = p /\ Succeeded(b)}}

\* C19 as stated: an info reports the balance the player was constructed
\* with, plus every amount of the ReceiveGold messages handled so far (those
\* sent before the info), minus the prices of the goods its buys have
\* returned, and reports exactly those goods (a player is constructed
\* without goods).
C19_InfoIsSnapshot ==
    [][ \A p \in Players :
           ( /\ PlayerReceives(p, "Info")
             /\ mailbox'[p] = Tail(mailbox[p]) ) =>
               LET d == Head(mailbox[p]).response.id
                   got == ReceivedBefore(p, d)
               IN  calls'[d].response =
                       Ok(<< initial[p]
                               + SumOf([c \in got |-> calls[c].gold], got)
                               - SumOf([item \in Bought(p) |-> item.price], Bought(p)),
                             Bought(p) >>)
      ]_vars

\* A buy request naming the shop is queued in, or being handled by, player p.
BuyPending(p) ==
    \/ Suspended(p)
    \/ \E k \in 1 .. Len(mailbox[p]) : mailbox[p][k].kind = "BuyItem"

\* C20: Shop::run does not return while a buy request is queued in or being
\* handled by a player, nor while its own mailbox holds a message, which it
\* can always go on to handle; it returns only once the drivers have dropped
\* their handle, no buy request is left and its mailbox is empty; so the
\* check_price and buy_item of a player's buy never fail with ShopClosed or
\* NoResponse.
C20_ShopOutlivesBuys ==
    /\ [](\A p \in Players :
             /\ BuyPending(p) => shopRunning
             /\ reply[p] # Err(ShopClosed)
             /\ reply[p] # Err(NoResponse))
    /\ [](shopMailbox # << >> => (shopRunning /\ ENABLED ShopNext))
    /\ [][ (shopRunning /\ ~shopRunning') =>
               /\ ~shopHandle
               /\ shopMailbox = << >>
               /\ \A p \in Players : ~BuyPending(p)
               /\ UNCHANGED << shopVars, wallet, inventory, mailbox, pc,
                               localVars, reply, calls >>
         ]_vars

\* The drivers have dropped their ShopHandle while a buy they sent is still
\* waiting in a player's mailbox: the shop is running.
C20_Witness ==
    \E p \in Players :
        /\ ~shopHandle
        /\ shopRunning
        /\ pc[p] = "idle"
        /\ mailbox[p] # << >>
        /\ Head(mailbox[p]).kind = "BuyItem"

====
